---- MODULE Spec2Model ----
(***************************************************************************)
(* Model of mrpro's functional base classes                                *)
(* (src/mrpro/operators/Functional.py) and of the test helpers             *)
(* (tests/helper.py).                                                      *)
(*                                                                         *)
(* Numbers are exact rationals <<n, d>> (d > 0, lowest terms), so that the *)
(* thresholds 1e-8 and 1e-6 of prox_convex_conj keep their true ratio.     *)
(* Python values are records [type, dtype, shape, data]; a tensor's data   *)
(* is its flattened element list.                                          *)
(***************************************************************************)
EXTENDS Integers, Sequences, FiniteSets, TLC

VARIABLES weight, target, dim, divide_by_n, keepdim, call

vars == <<weight, target, dim, divide_by_n, keepdim, call>>
self == <<weight, target, dim, divide_by_n, keepdim>>

----------------------------------------------------------------------------
(* Exact arithmetic standing for the tensor library's real arithmetic.     *)

Abs(n) == IF n < 0 THEN -n ELSE n

RECURSIVE Gcd(_, _)
Gcd(a, b) == IF b = 0 THEN a ELSE Gcd(b, a % b)

\* the rational n/d in lowest terms with a positive denominator
Rat(n, d) ==
    LET g == Gcd(Abs(n), Abs(d))
        s == IF d < 0 THEN -1 ELSE 1
    IN  <<(s * n) \div g, (s * d) \div g>>

Int2Rat(n) == <<n, 1>>

Lcm(a, b) == (a \div Gcd(a, b)) * b

RatAdd(a, b) ==
    LET l == Lcm(a[2], b[2])
    IN  Rat(a[1] * (l \div a[2]) + b[1] * (l \div b[2]), l)

RatNeg(a) == <<-a[1], a[2]>>

RatSub(a, b) == RatAdd(a, RatNeg(b))

RatMul(a, b) ==
    LET g1 == Gcd(Abs(a[1]), b[2])
        g2 == Gcd(Abs(b[1]), a[2])
    IN  Rat((a[1] \div g1) * (b[1] \div g2), (a[2] \div g2) * (b[2] \div g1))

\* a / b for b # 0
RatDiv(a, b) == RatMul(a, Rat(b[2], b[1]))

RatLt(a, b) ==
    LET l == Lcm(a[2], b[2])
    IN  a[1] * (l \div a[2]) < b[1] * (l \div b[2])

RatGe(a, b) == ~RatLt(a, b)

RatAbs(a) == <<Abs(a[1]), a[2]>>

Zero == Int2Rat(0)
One == Int2Rat(1)

----------------------------------------------------------------------------
(* Python values.                                                          *)

Scalar(type, v) == [type |-> type, dtype |-> "none", shape |-> <<>>, data |-> <<v>>]

Tensor(dtype, shape, data) ==
    [type |-> "Tensor", dtype |-> dtype, shape |-> shape, data |-> data]

None == [type |-> "NoneType", dtype |-> "none", shape |-> <<>>, data |-> <<>>]

IsTensor(v) == v.type = "Tensor"

\* isinstance(x, float | int)
IsFloatOrInt(v) == v.type \in {"float", "int"}

\* dtype.is_complex
IsComplex(dtype) == dtype = "complex64"

\* torch.as_tensor(v): a tensor is passed through, a scalar becomes a 0-dim tensor
AsTensor(v) ==
    IF IsTensor(v) THEN v
    ELSE Tensor(CASE v.type = "int" -> "int64"
                  [] v.type = "float" -> "float32"
                  [] v.type = "complex" -> "complex64",
                <<>>, v.data)

\* 1.0 * v for a Python number v: int and float give a float, complex stays complex
FloatTimes(v) ==
    Scalar(IF v.type = "complex" THEN "complex" ELSE "float", v.data[1])

\* a 0-dim float tensor
FloatTensor0(v) == Tensor("float32", <<>>, <<v>>)

NoException == [type |-> "none", message |-> ""]

ValueError(message) == [type |-> "ValueError", message |-> message]

----------------------------------------------------------------------------
(* Functional._throw_if_negative_or_complex                                *)

DefaultMessage == "sigma must be real and contain only positive values"

\* (x >= 0).all()
AllNonNegative(x) == \A i \in 1..Len(x.data) : RatGe(x.data[i], Zero)

\* variant: the comparison is x > 0
ThrowIfNegativeOrComplexStrict(x, message) ==
    IF \/ (IsFloatOrInt(x) /\ RatLt(Zero, x.data[1]))
       \/ (IsTensor(x) /\ ~IsComplex(x.dtype)
           /\ \A i \in 1..Len(x.data) : RatLt(Zero, x.data[i]))
    THEN NoException
    ELSE ValueError(message)

ThrowIfNegativeOrComplex(x, message) ==
    IF \/ (IsFloatOrInt(x) /\ RatGe(x.data[1], Zero))
       \/ (IsTensor(x) /\ ~IsComplex(x.dtype) /\ AllNonNegative(x))
    THEN NoException
    ELSE ValueError(message)

----------------------------------------------------------------------------
(* ElementaryFunctional                                                    *)

\* a Python int, list, tuple or None passed as dim
DimNone == [type |-> "NoneType", items |-> <<>>]
DimInt(i) == [type |-> "int", items |-> <<i>>]
DimList(s) == [type |-> "list", items |-> s]
DimTuple(s) == [type |-> "tuple", items |-> s]

\* variant: only an int is wrapped, a sequence is stored as passed
NormalizeDimIntOnly(d) == IF d.type = "int" THEN DimTuple(<<d.items[1]>>) ELSE d

\* the normalisation of dim in __init__
NormalizeDim(d) ==
    IF d.type = "int" THEN DimTuple(<<d.items[1]>>)
    ELSE IF d.type \in {"list", "tuple", "range"} THEN DimTuple(d.items)
    ELSE d

\* the fields set by ElementaryFunctional.__init__
Construct(w, t, d, dbn, kd) ==
    [weight |-> AsTensor(w),
     target |-> AsTensor(IF t.type = "NoneType" THEN Scalar("float", Zero) ELSE t),
     dim |-> NormalizeDim(d),
     divide_by_n |-> dbn,
     keepdim |-> kd]

\* shape[i] with Python's indexing: negative i counts from the end
ValidIndex(shape, i) == i >= -Len(shape) /\ i < Len(shape)
Index(shape, i) == IF i < 0 THEN shape[Len(shape) + i + 1] ELSE shape[i + 1]

\* math.prod(size)
RECURSIVE Prod(_)
Prod(size) == IF size = <<>> THEN 1 ELSE Head(size) * Prod(Tail(size))

\* x / n for a tensor x and a Python int n
TensorDivInt(x, n) ==
    Tensor(x.dtype, x.shape, [i \in 1..Len(x.data) |-> RatDiv(x.data[i], Int2Rat(n))])

IndexError == [type |-> "IndexError", message |-> "tuple index out of range"]

\* variant: every axis of shape is counted, whatever self.dim is
SizesAllAxes(sdim, shape) == shape

\* the list size of _divide_by_n: [shape[i] for i in self.dim], or list(shape)
Sizes(sdim, shape) ==
    IF sdim.type # "NoneType"
    THEN [k \in 1..Len(sdim.items) |-> Index(shape, sdim.items[k])]
    ELSE shape

\* ElementaryFunctional._divide_by_n: [ret, exc]
DivideByN(sdim, sdivide_by_n, x, shapeArg) ==
    IF ~sdivide_by_n THEN [ret |-> x, exc |-> NoException]
    ELSE LET shape == IF shapeArg.type = "NoneType" THEN x.shape ELSE shapeArg.items
         IN  IF /\ sdim.type # "NoneType"
                /\ \E k \in 1..Len(sdim.items) : ~ValidIndex(shape, sdim.items[k])
             THEN [ret |-> None, exc |-> IndexError]
             ELSE [ret |-> TensorDivInt(x, Prod(Sizes(sdim, shape))), exc |-> NoException]

----------------------------------------------------------------------------
(* Elementwise tensor arithmetic with broadcasting of one-element tensors. *)

Numel(t) == Len(t.data)

Elt(t, i) == IF Numel(t) = 1 THEN t.data[1] ELSE t.data[i]

BroadcastShape(a, b) ==
    IF Len(b.shape) > Len(a.shape) \/ Numel(b) > Numel(a) THEN b.shape ELSE a.shape

Max(m, n) == IF m >= n THEN m ELSE n

\* the indices of the entries of a (op) b
BroadcastIndices(a, b) == 1..Max(Numel(a), Numel(b))

\* a - b, a * b, a / b and a + b, elementwise
TensorSub(a, b) ==
    Tensor("float32", BroadcastShape(a, b),
           [i \in BroadcastIndices(a, b) |-> RatSub(Elt(a, i), Elt(b, i))])

TensorMul(a, b) ==
    Tensor("float32", BroadcastShape(a, b),
           [i \in BroadcastIndices(a, b) |-> RatMul(Elt(a, i), Elt(b, i))])

TensorDiv(a, b) ==
    Tensor("float32", BroadcastShape(a, b),
           [i \in BroadcastIndices(a, b) |-> RatDiv(Elt(a, i), Elt(b, i))])

TensorAdd(a, b) ==
    Tensor("float32", BroadcastShape(a, b),
           [i \in BroadcastIndices(a, b) |-> RatAdd(Elt(a, i), Elt(b, i))])

\* 1 / t
Reciprocal(t) ==
    Tensor("float32", t.shape, [i \in 1..Numel(t) |-> RatDiv(One, t.data[i])])

----------------------------------------------------------------------------
(* ProximableFunctional                                                    *)

\* variant: an increment of 5e-9, below the threshold
SigmaIncrementTooSmall == Rat(1, 200000000)

\* the literals 1e-8 and 1e-6 of prox_convex_conj
SmallSigma == Rat(1, 100000000)
SigmaIncrement == Rat(1, 1000000)

\* variant: sigma <= 1e-8
MaskLessOrEqual(t, c) == [i \in 1..Len(t.data) |-> ~RatLt(c, t.data[i])]

\* sigma < 1e-8
MaskLessThan(t, c) == [i \in 1..Numel(t) |-> RatLt(t.data[i], c)]

\* sigma[mask] += c, acting on the tensor object itself
MaskedAddInPlace(t, mask, c) ==
    Tensor(t.dtype, t.shape,
           [i \in 1..Numel(t) |-> IF mask[i] THEN RatAdd(t.data[i], c) ELSE t.data[i]])

RatSign(a) == IF a[1] > 0 THEN One ELSE IF a[1] < 0 THEN RatNeg(One) ELSE Zero

RatMax(a, b) == IF RatLt(a, b) THEN b ELSE a

\* closed-form proximal operators of three subclasses:
\*   "zero"  f = 0                 prox(x, s) = x
\*   "l2sq"  f = 1/2 ||x||^2       prox(x, s) = x / (1 + s)
\*   "l1"    f = ||x||_1           prox(x, s) = sign(x) max(|x| - s, 0)
ProxElement(f, x, s) ==
    CASE f = "zero" -> x
      [] f = "l2sq" -> RatDiv(x, RatAdd(One, s))
      [] f = "l1"   -> RatMul(RatSign(x), RatMax(RatSub(RatAbs(x), s), Zero))

\* self.prox(x, sigma): a one-element tuple
Prox(f, x, sigma) ==
    <<Tensor("float32", BroadcastShape(x, sigma),
             [i \in 1..Max(Numel(x), Numel(sigma)) |->
                 ProxElement(f, Elt(x, i), Elt(sigma, i))])>>

\* sigma as a tensor: a tensor argument is the caller's object itself, any other
\* argument is converted into a new tensor
ConvertSigma(sigmaArg) ==
    IF ~IsTensor(sigmaArg) THEN AsTensor(FloatTimes(sigmaArg)) ELSE sigmaArg

\* sigma[sigma < 1e-8] += 1e-6
ClampSmall(sigma) ==
    MaskedAddInPlace(sigma, MaskLessThan(sigma, SmallSigma), SigmaIncrement)

\* variant: the small entries are raised in a copy of the caller's tensor
CallerSigmaCopied(sigmaArg, sigma) == sigmaArg

\* the object the caller passed as sigma, once the local tensor sigma has been
\* written to: the same object when the caller passed a tensor
CallerSigma(sigmaArg, sigma) == IF IsTensor(sigmaArg) THEN sigma ELSE sigmaArg

\* variant: the small entries are raised before sigma is validated
ProxConvexConjClampFirst(f, x, sigmaArg) ==
    LET sigma == ClampSmall(ConvertSigma(sigmaArg))
        exc   == ThrowIfNegativeOrComplex(sigma, DefaultMessage)
    IN  IF exc # NoException
        THEN [ret |-> <<>>, exc |-> exc, sigma |-> sigma,
              sigmaAfter |-> CallerSigma(sigmaArg, sigma), xAfter |-> x,
              proxCalls |-> <<>>]
        ELSE LET arg1 == TensorDiv(x, sigma)
                 arg2 == Reciprocal(sigma)
                 p    == Prox(f, arg1, arg2)
             IN  [ret |-> <<TensorSub(x, TensorMul(sigma, p[1]))>>,
                  exc |-> NoException, sigma |-> sigma,
                  sigmaAfter |-> CallerSigma(sigmaArg, sigma), xAfter |-> x,
                  proxCalls |-> <<[x |-> arg1, sigma |-> arg2]>>]

\* variant: the result is x - prox(x / sigma, 1 / sigma), the factor sigma is lost
ProxConvexConjNoFactor(f, x, sigmaArg) ==
    LET sigma0 == ConvertSigma(sigmaArg)
        exc    == ThrowIfNegativeOrComplex(sigma0, DefaultMessage)
    IN  IF exc # NoException
        THEN [ret |-> <<>>, exc |-> exc, sigma |-> sigma0,
              sigmaAfter |-> CallerSigma(sigmaArg, sigma0), xAfter |-> x,
              proxCalls |-> <<>>]
        ELSE LET sigma == ClampSmall(sigma0)
                 arg1  == TensorDiv(x, sigma)
                 arg2  == Reciprocal(sigma)
                 p     == Prox(f, arg1, arg2)
             IN  [ret |-> <<TensorSub(x, p[1])>>,
                  exc |-> NoException, sigma |-> sigma,
                  sigmaAfter |-> CallerSigma(sigmaArg, sigma), xAfter |-> x,
                  proxCalls |-> <<[x |-> arg1, sigma |-> arg2]>>]

\* ProximableFunctional.prox_convex_conj of a subclass with prox f.
\*   ret        the returned tuple (<<>> when an exception is raised)
\*   exc        the exception raised, or NoException
\*   sigma      the local variable sigma when the call ends
\*   sigmaAfter the object the caller passed as sigma, after the call
\*   xAfter     the object the caller passed as x, after the call
\*   proxCalls  the argument pairs of the calls made to self.prox, in order
ProxConvexConj(f, x, sigmaArg) ==
    LET sigma0 == ConvertSigma(sigmaArg)
        exc    == ThrowIfNegativeOrComplex(sigma0, DefaultMessage)
    IN  IF exc # NoException
        THEN [ret |-> <<>>, exc |-> exc, sigma |-> sigma0,
              sigmaAfter |-> CallerSigma(sigmaArg, sigma0), xAfter |-> x,
              proxCalls |-> <<>>]
        ELSE LET sigma == ClampSmall(sigma0)
                 arg1  == TensorDiv(x, sigma)
                 arg2  == Reciprocal(sigma)
                 p     == Prox(f, arg1, arg2)
             IN  [ret |-> <<TensorSub(x, TensorMul(sigma, p[1]))>>,
                  exc |-> NoException,
                  sigma |-> sigma,
                  sigmaAfter |-> CallerSigma(sigmaArg, sigma),
                  xAfter |-> x,
                  proxCalls |-> <<[x |-> arg1, sigma |-> arg2]>>]

----------------------------------------------------------------------------
(* tests/helper.py                                                         *)

RECURSIVE RatSum(_)
RatSum(s) == IF s = <<>> THEN Zero ELSE RatAdd(Head(s), RatSum(Tail(s)))

\* torch.mean(t): a 0-dim tensor
Mean(t) == FloatTensor0(RatDiv(RatSum(t.data), Int2Rat(Numel(t))))

\* variant: the magnitudes are not taken
TensorNoAbs(t) == t

\* torch.abs(t)
TensorAbs(t) == Tensor(t.dtype, t.shape, [i \in 1..Numel(t) |-> RatAbs(t.data[i])])

\* relative_image_difference: [ret, exc]
RelativeImageDifference(img1, img2) ==
    LET image_difference == Mean(TensorAbs(TensorSub(img1, img2)))
        image_mean == TensorMul(FloatTensor0(Rat(1, 2)),
                                Mean(TensorAdd(TensorAbs(img1), TensorAbs(img2))))
    IN  IF image_mean.data[1] = Zero
        THEN [ret |-> None, exc |-> ValueError("average of images should be larger than 0")]
        ELSE [ret |-> TensorDiv(image_difference, image_mean), exc |-> NoException]

\* A linear operator is given by the matrices (sequences of rows) that its forward
\* call and its adjoint call apply.
Rows(M) == Len(M)
Cols(M) == Len(M[1])

\* the one-element tuple an operator call returns: M applied to the vector t
Apply(M, t) ==
    <<Tensor(t.dtype, <<Rows(M)>>,
             [i \in 1..Rows(M) |->
                 RatSum([j \in 1..Cols(M) |-> RatMul(M[i][j], t.data[j])])])>>

\* torch.vdot(a, b) of real vectors
Vdot(a, b) == RatSum([i \in 1..Numel(a) |-> RatMul(a.data[i], b.data[i])])

\* variant: the comparison is exact, without tolerances
IsCloseExact(actual, expected, rtol, atol) == actual = expected

\* the comparison of torch.testing.assert_close: |actual - expected| <= atol + rtol |expected|
IsClose(actual, expected, rtol, atol) ==
    RatGe(RatAdd(atol, RatMul(rtol, RatAbs(expected))), RatAbs(RatSub(actual, expected)))

\* the default tolerances of dotproduct_adjointness_test
DefaultRelativeTolerance == Rat(1, 1000)
DefaultAbsoluteTolerance == Rat(1, 100000)

AssertionError(check) == [type |-> "AssertionError", message |-> check]

\* t.flatten()
Flatten(t) == Tensor(t.dtype, <<Numel(t)>>, t.data)

\* dotproduct_adjointness_test: the exception it ends with
DotproductAdjointnessTest(operator, u, v, relative_tolerance, absolute_tolerance) ==
    LET forward_u == Apply(operator.forward, u)[1]
        adjoint_v == Apply(operator.adjoint, v)[1]
    IN  IF forward_u.shape # v.shape
        THEN AssertionError("forward_u.shape == v.shape")
        ELSE IF adjoint_v.shape # u.shape
        THEN AssertionError("adjoint_v.shape == u.shape")
        ELSE LET dotproduct_range == Vdot(Flatten(forward_u), Flatten(v))
                 dotproduct_domain == Vdot(Flatten(Flatten(u)), Flatten(adjoint_v))
             IN  IF IsClose(dotproduct_range, dotproduct_domain,
                            relative_tolerance, absolute_tolerance)
                 THEN NoException
                 ELSE AssertionError("assert_close")

----------------------------------------------------------------------------
(* Inputs of the life-cycle specification.                                 *)

Half == Rat(1, 2)
Two == Int2Rat(2)
Tiny == Rat(1, 200000000)          \* 5e-9, below the 1e-8 threshold

Float(v) == Scalar("float", v)
FloatTensor(shape, data) == Tensor("float32", shape, data)
ComplexTensor(shape, data) == Tensor("complex64", shape, data)

\* the tensor of the given shape holding 1, 2, 3, ... in row-major order
Arange(shape) == FloatTensor(shape, [i \in 1..Prod(shape) |-> Int2Rat(i)])

WeightArgs == {FloatTensor(<<2>>, <<One, Two>>)}
TargetArgs == {None, Float(Half)}
DimArgs ==
    {DimNone, DimInt(0), DimInt(-1), DimTuple(<<0>>), DimList(<<0, 1>>),
     DimTuple(<<1, 0>>), [type |-> "range", items |-> <<0, 1>>], DimList(<<>>)}

DivideXs == {Arange(<<2, 3>>), Arange(<<3>>), Arange(<<>>)}
ShapeArgs == {DimNone, DimTuple(<<2, 3>>), DimList(<<4>>), DimTuple(<<3, 1, 2>>)}

ProxKinds == {"zero", "l2sq", "l1"}

LifeProxKinds == {"zero", "l2sq"}
LifeProxXs == {FloatTensor(<<2>>, <<Int2Rat(-2), Int2Rat(3)>>)}
LifeSigmaArgs ==
    {Scalar("int", Zero), Float(Half), Float(RatNeg(Half)), Scalar("complex", One),
     FloatTensor(<<>>, <<Two>>), FloatTensor(<<2>>, <<Zero, Two>>),
     FloatTensor(<<2>>, <<SmallSigma, Tiny>>), FloatTensor(<<2>>, <<Half, Int2Rat(-1)>>),
     ComplexTensor(<<2>>, <<One, Two>>)}

\* x and sigma broadcast against each other
Broadcastable(x, sigma) == Numel(x) = 1 \/ Numel(sigma) = 1 \/ Numel(x) = Numel(sigma)

OtherMessage == "weight must be real and non-negative"
Messages == {DefaultMessage, OtherMessage}

----------------------------------------------------------------------------
(* Life cycle of one functional: constructed once, then called repeatedly. *)
(* call is the last call made: its name, its arguments as passed, and what *)
(* it did (res).                                                           *)

Init ==
    \E w \in WeightArgs, t \in TargetArgs, d \in DimArgs, dbn \in BOOLEAN, kd \in BOOLEAN :
        LET obj == Construct(w, t, d, dbn, kd)
        IN  /\ weight = obj.weight
            /\ target = obj.target
            /\ dim = obj.dim
            /\ divide_by_n = obj.divide_by_n
            /\ keepdim = obj.keepdim
            /\ call = [op |-> "__init__", done |-> TRUE,
                       args |-> [weight |-> w, target |-> t, dim |-> d,
                                 divide_by_n |-> dbn, keepdim |-> kd],
                       res |-> obj]

CallThrowIfNegativeOrComplex ==
    \E x \in LifeSigmaArgs :
        /\ call' = [op |-> "_throw_if_negative_or_complex", done |-> TRUE,
                    args |-> [x |-> x, message |-> DefaultMessage],
                    res |-> ThrowIfNegativeOrComplex(x, DefaultMessage)]
        /\ UNCHANGED self

CallDivideByN ==
    \E x \in DivideXs, shape \in ShapeArgs :
        /\ call' = [op |-> "_divide_by_n", done |-> TRUE,
                    args |-> [x |-> x, shape |-> shape],
                    res |-> DivideByN(dim, divide_by_n, x, shape)]
        /\ UNCHANGED self

CallProxConvexConj ==
    \E f \in LifeProxKinds, x \in LifeProxXs, sigma \in LifeSigmaArgs :
        /\ Broadcastable(x, sigma)
        /\ call' = [op |-> "prox_convex_conj", done |-> TRUE,
                    args |-> [f |-> f, x |-> x, sigma |-> sigma],
                    res |-> ProxConvexConj(f, x, sigma)]
        /\ UNCHANGED self

Next == CallThrowIfNegativeOrComplex \/ CallDivideByN \/ CallProxConvexConj

Spec == Init /\ [][Next]_vars

----------------------------------------------------------------------------
(* Single calls on exhaustively enumerated arguments: every initial state  *)
(* holds one call about to be made, and the one step makes it.             *)

MaxLen == 2

NumVals == {Zero, Tiny, SmallSigma, Half, Two, RatNeg(One), RatNeg(Tiny)}
XVals == {Int2Rat(-2), Int2Rat(3)}
ImgVals == {Zero, One, RatNeg(One)}

\* the 1-D float tensors of 1..MaxLen elements drawn from S
Vectors(S) == UNION {{FloatTensor(<<n>>, d) : d \in [1..n -> S]} : n \in 1..MaxLen}

SigmaArgs ==
    {Scalar("int", Zero), Scalar("int", Two), Scalar("int", Int2Rat(-1)),
     Scalar("complex", Zero), Scalar("complex", One)}
    \cup {Float(v) : v \in NumVals}
    \cup {FloatTensor0(v) : v \in NumVals}
    \cup Vectors(NumVals)
    \cup {ComplexTensor(<<>>, <<One>>)}
    \cup {ComplexTensor(<<n>>, [i \in 1..n |-> One]) : n \in 1..MaxLen}

ProxXs == Vectors(XVals)

Images == Vectors(ImgVals)

OperatorDims == {1, 2}
MatVals == {Zero, One, Int2Rat(1000)}
VecVals == {Zero, One, RatNeg(One)}

Matrices == UNION {[1..m -> [1..n -> MatVals]] : m \in OperatorDims, n \in OperatorDims}

Transpose(M) == [j \in 1..Cols(M) |-> [i \in 1..Rows(M) |-> M[i][j]]]

\* implementations of the adjoint call a subclass may supply for forward matrix A:
\* the conjugate transpose, A itself (transposition forgotten), the transpose with
\* one entry off by one, the zero map, and the transpose cut to its first row
AdjointImpls(A) ==
    {Transpose(A), A,
     [Transpose(A) EXCEPT ![1][1] = RatAdd(@, One)],
     [j \in 1..Cols(A) |-> [i \in 1..Rows(A) |-> Zero]],
     <<Transpose(A)[1]>>}

VectorsOfLen(n) == {FloatTensor(<<n>>, d) : d \in [1..n -> VecVals]}

\* ElementaryFunctional() with the defaults of its signature
DefaultFunctional == Construct(Float(One), None, DimNone, FALSE, FALSE)

Pending(op, args) == [op |-> op, done |-> FALSE, args |-> args]
Done(op, args, res) == [op |-> op, done |-> TRUE, args |-> args, res |-> res]

InitCalls ==
    /\ weight = DefaultFunctional.weight
    /\ target = DefaultFunctional.target
    /\ dim = DefaultFunctional.dim
    /\ divide_by_n = DefaultFunctional.divide_by_n
    /\ keepdim = DefaultFunctional.keepdim
    /\ \/ \E x \in SigmaArgs, message \in Messages :
            call = Pending("_throw_if_negative_or_complex", [x |-> x, message |-> message])
       \/ \E f \in ProxKinds, x \in ProxXs, sigma \in SigmaArgs :
            /\ Broadcastable(x, sigma)
            /\ call = Pending("prox_convex_conj", [f |-> f, x |-> x, sigma |-> sigma])
       \/ \E img1 \in Images, img2 \in Images :
            /\ img1.shape = img2.shape
            /\ call = Pending("relative_image_difference", [img1 |-> img1, img2 |-> img2])
       \/ \E A \in Matrices :
            \E B \in AdjointImpls(A) :
                \E u \in VectorsOfLen(Cols(A)), v \in VectorsOfLen(Cols(B)) :
                    call = Pending("dotproduct_adjointness_test",
                                   [operator |-> [forward |-> A, adjoint |-> B],
                                    u |-> u, v |-> v,
                                    relative_tolerance |-> DefaultRelativeTolerance,
                                    absolute_tolerance |-> DefaultAbsoluteTolerance])

RunThrowIfNegativeOrComplex ==
    /\ call.op = "_throw_if_negative_or_complex" /\ ~call.done
    /\ call' = Done(call.op, call.args,
                    ThrowIfNegativeOrComplex(call.args.x, call.args.message))
    /\ UNCHANGED self

RunProxConvexConj ==
    /\ call.op = "prox_convex_conj" /\ ~call.done
    /\ call' = Done(call.op, call.args,
                    ProxConvexConj(call.args.f, call.args.x, call.args.sigma))
    /\ UNCHANGED self

RunRelativeImageDifference ==
    /\ call.op = "relative_image_difference" /\ ~call.done
    /\ call' = Done(call.op, call.args,
                    RelativeImageDifference(call.args.img1, call.args.img2))
    /\ UNCHANGED self

RunDotproductAdjointnessTest ==
    /\ call.op = "dotproduct_adjointness_test" /\ ~call.done
    /\ call' = Done(call.op, call.args,
                    DotproductAdjointnessTest(call.args.operator, call.args.u, call.args.v,
                                              call.args.relative_tolerance,
                                              call.args.absolute_tolerance))
    /\ UNCHANGED self

NextCalls ==
    \/ RunThrowIfNegativeOrComplex
    \/ RunProxConvexConj
    \/ RunRelativeImageDifference
    \/ RunDotproductAdjointnessTest

SpecCalls == InitCalls /\ [][NextCalls]_vars

Ops == {"__init__", "_throw_if_negative_or_complex", "_divide_by_n", "prox_convex_conj",
        "relative_image_difference", "dotproduct_adjointness_test"}

TypeOK == call.op \in Ops /\ call.done \in BOOLEAN

----------------------------------------------------------------------------
(* Properties.                                                             *)

Called(op) == call.op = op /\ call.done

IsNeg(v) == v[1] < 0

\* v is complex, as a Python number or by its dtype
ClaimComplex(v) == v.type = "complex" \/ (v.type = "Tensor" /\ v.dtype = "complex64")

ClaimHasNegative(v) == \E i \in 1..Len(v.data) : IsNeg(v.data[i])

ClaimThreshold == Rat(1, 100000000)
ClaimIncrement == Rat(1, 1000000)

\* the entries of sigma after the small ones have been raised
ClaimClamped(v) ==
    [i \in 1..Len(v.data) |->
        IF RatLt(v.data[i], ClaimThreshold) THEN RatAdd(v.data[i], ClaimIncrement)
        ELSE v.data[i]]

\* entry i of a sequence of entries that is broadcast when it has one entry
ClaimAt(d, i) == IF Len(d) = 1 THEN d[1] ELSE d[i]

\* C1: _throw_if_negative_or_complex returns for a non-negative int or float and
\* for a non-complex tensor without negative element, and raises ValueError with
\* the supplied message for every other argument.
C1_GuardContract ==
    Called("_throw_if_negative_or_complex") =>
        LET x == call.args.x
        IN  IF ~ClaimComplex(x) /\ ~ClaimHasNegative(x)
            THEN call.res = NoException
            ELSE call.res = [type |-> "ValueError", message |-> call.args.message]

C1_Witness ==
    /\ Called("_throw_if_negative_or_complex")
    /\ call.args.x = FloatTensor(<<2>>, <<Half, RatNeg(Tiny)>>)
    /\ call.args.message = OtherMessage
    /\ call.res = ValueError(OtherMessage)

C3_InvalidSigmaRaises ==
    (Called("prox_convex_conj")
        /\ (ClaimComplex(call.args.sigma) \/ ClaimHasNegative(call.args.sigma))) =>
        /\ call.res.exc.type = "ValueError"
        /\ call.res.ret = <<>>
        /\ call.res.proxCalls = <<>>
        /\ call.res.sigmaAfter = call.args.sigma
        /\ call.res.xAfter = call.args.x

C3_Witness ==
    /\ Called("prox_convex_conj")
    /\ call.args.sigma = FloatTensor(<<2>>, <<Zero, RatNeg(Tiny)>>)
    /\ call.res.exc = ValueError(DefaultMessage)
    /\ call.res.sigmaAfter = FloatTensor(<<2>>, <<Zero, RatNeg(Tiny)>>)

\* C4: when prox_convex_conj gets past validation, each entry of sigma below 1e-8
\* is larger by exactly 1e-6, and each other entry is as passed, in the sigma
\* that divides x and whose reciprocal is handed to prox.
C4_SmallEntriesRaised ==
    (Called("prox_convex_conj") /\ call.res.exc = NoException) =>
        LET v == call.args.sigma.data
            used == call.res.sigma.data
        IN  /\ Len(used) = Len(v)
            /\ \A i \in 1..Len(v) :
                /\ RatLt(v[i], ClaimThreshold) => used[i] = RatAdd(v[i], ClaimIncrement)
                /\ ~RatLt(v[i], ClaimThreshold) => used[i] = v[i]
                /\ RatMul(call.res.proxCalls[1].sigma.data[i], used[i]) = One
            /\ \A i \in 1..Len(call.res.proxCalls[1].x.data) :
                RatMul(call.res.proxCalls[1].x.data[i], ClaimAt(used, i))
                    = ClaimAt(call.args.x.data, i)

C4_Witness ==
    /\ Called("prox_convex_conj")
    /\ call.args.sigma = FloatTensor(<<2>>, <<Tiny, SmallSigma>>)
    /\ call.res.sigma.data = <<Rat(201, 200000000), Rat(1, 100000000)>>

\* C5 as claimed: the test passes for every true adjoint and raises an assertion
\* error for every adjoint that has the wrong shapes or is not the true adjoint.
C5_Original ==
    Called("dotproduct_adjointness_test") =>
        LET A == call.args.operator.forward
            B == call.args.operator.adjoint
            mismatched == Rows(A) # Len(call.args.v.data) \/ Rows(B) # Len(call.args.u.data)
        IN  /\ B = Transpose(A) => call.res = NoException
            /\ (mismatched \/ B # Transpose(A)) => call.res.type = "AssertionError"

\* <A u, v> and <u, B v> written out as double sums
ClaimInnerRange(A, u, v) ==
    RatSum([i \in 1..Len(v) |->
               RatSum([j \in 1..Len(u) |-> RatMul(RatMul(A[i][j], u[j]), v[i])])])

ClaimInnerDomain(B, u, v) ==
    RatSum([j \in 1..Len(u) |->
               RatSum([i \in 1..Len(v) |-> RatMul(u[j], RatMul(B[j][i], v[i]))])])

\* C5 (amended): the test passes for every true adjoint, raises an assertion error
\* whenever a shape is wrong, and with the right shapes raises exactly when
\* <A u, v> and <u, B v> of the supplied u and v differ by more than
\* atol + rtol |<u, B v>|; an incorrect adjoint that agrees on this u and v passes.
C5_SingleSampleCheck ==
    Called("dotproduct_adjointness_test") =>
        LET A == call.args.operator.forward
            B == call.args.operator.adjoint
            u == call.args.u.data
            v == call.args.v.data
            mismatched == Rows(A) # Len(v) \/ Rows(B) # Len(u)
        IN  /\ B = Transpose(A) => call.res = NoException
            /\ mismatched => call.res.type = "AssertionError"
            /\ ~mismatched =>
                LET range == ClaimInnerRange(A, u, v)
                    domain == ClaimInnerDomain(B, u, v)
                    tolerance == RatAdd(call.args.absolute_tolerance,
                                        RatMul(call.args.relative_tolerance, RatAbs(domain)))
                IN  (call.res.type = "AssertionError")
                        <=> RatLt(tolerance, RatAbs(RatSub(range, domain)))

\* an adjoint that is off by one in one entry passes, within the tolerance
C5_Witness ==
    /\ Called("dotproduct_adjointness_test")
    /\ call.args.operator = [forward |-> <<<<Int2Rat(1000)>>>>, adjoint |-> <<<<Int2Rat(1001)>>>>]
    /\ call.args.u.data = <<One>>
    /\ call.args.v.data = <<One>>
    /\ call.res = NoException

ClaimAllZero(img) == \A i \in 1..Len(img.data) : img.data[i] = Zero

\* C6: relative_image_difference raises ValueError exactly when both images are
\* all zero, which is exactly when half the mean of |img1| + |img2| is 0, and
\* returns 0 for two equal images with a nonzero element.
C6_RelativeImageDifference ==
    Called("relative_image_difference") =>
        LET a == call.args.img1
            b == call.args.img2
            total == RatSum([i \in 1..Len(a.data) |->
                                RatAdd(RatAbs(a.data[i]), RatAbs(b.data[i]))])
            halfMean == RatMul(Rat(1, 2), RatDiv(total, Int2Rat(Len(a.data))))
        IN  /\ (call.res.exc.type = "ValueError") <=> (ClaimAllZero(a) /\ ClaimAllZero(b))
            /\ (call.res.exc.type = "ValueError") <=> (halfMean = Zero)
            /\ call.res.exc.type \in {"ValueError", "none"}
            /\ (a = b /\ ~ClaimAllZero(a)) =>
                  /\ call.res.exc = NoException
                  /\ call.res.ret.data = <<Zero>>

C6_Witness ==
    /\ Called("relative_image_difference")
    /\ call.args.img1 = FloatTensor(<<2>>, <<One, RatNeg(One)>>)
    /\ call.args.img2 = call.args.img1
    /\ call.res.ret = FloatTensor0(Zero)

\* the stored dim is None or a tuple of ints
ClaimDimForm == dim.type \in {"NoneType", "tuple"} /\ \A k \in 1..Len(dim.items) : dim.items[k] \in Int

\* C7: the dim stored by the constructor is None for None, and otherwise a tuple
\* with the elements of the argument in their order ((i,) for an int i); it has
\* this form in every state and no call changes it.
C7_DimNormalized ==
    /\ [](/\ ClaimDimForm
          /\ Called("__init__") =>
                /\ dim.items = call.args.dim.items
                /\ (dim.type = "NoneType") <=> (call.args.dim.type = "NoneType"))
    /\ [][dim' = dim]_vars

C7_Witness ==
    /\ Called("__init__")
    /\ call.args.dim = DimList(<<0, 1>>)
    /\ dim = DimTuple(<<0, 1>>)

\* the product of the first n entries of S
RECURSIVE ClaimProduct(_, _)
ClaimProduct(S, n) == IF n = 0 THEN 1 ELSE ClaimProduct(S, n - 1) * S[n]

\* the size of S along axis i, a negative i counting from the last axis
ClaimAxis(S, i) == S[(IF i < 0 THEN i + Len(S) ELSE i) + 1]

C9_SigmaMutatedInPlace ==
    [][(call'.op = "prox_convex_conj" /\ call'.res.exc = NoException) =>
          /\ UNCHANGED <<weight, target, dim, divide_by_n, keepdim>>
          /\ call'.res.xAfter = call'.args.x
          /\ call'.args.sigma.type = "Tensor" =>
                /\ call'.res.sigmaAfter.data = ClaimClamped(call'.args.sigma)
                /\ call'.res.sigmaAfter.shape = call'.args.sigma.shape
                /\ call'.res.sigmaAfter.dtype = call'.args.sigma.dtype
          /\ call'.args.sigma.type # "Tensor" => call'.res.sigmaAfter = call'.args.sigma]_vars

C9_Witness ==
    /\ Called("prox_convex_conj")
    /\ call.args.sigma = FloatTensor(<<2>>, <<SmallSigma, Tiny>>)
    /\ call.res.sigmaAfter = FloatTensor(<<2>>, <<SmallSigma, Rat(201, 200000000)>>)
    /\ call.res.xAfter = call.args.x

\* C10: whenever prox_convex_conj divides by sigma, every entry of that sigma is
\* positive and at least 1e-8; a sigma of zeros passes validation and is divided
\* by after its entries have become 1e-6.
C10_NoDivisionByZero ==
    Called("prox_convex_conj") =>
        /\ call.res.exc = NoException =>
              \A i \in 1..Len(call.res.sigma.data) :
                  /\ call.res.sigma.data[i][1] > 0
                  /\ ~RatLt(call.res.sigma.data[i], ClaimThreshold)
        /\ (~ClaimComplex(call.args.sigma) /\ ClaimAllZero(call.args.sigma)) =>
              /\ call.res.exc = NoException
              /\ \A i \in 1..Len(call.res.sigma.data) : call.res.sigma.data[i] = ClaimIncrement

C10_Witness ==
    /\ Called("prox_convex_conj")
    /\ call.args.sigma = Float(Zero)
    /\ call.res.exc = NoException
    /\ call.res.sigma = FloatTensor0(Rat(1, 1000000))

====
